---- MODULE Spec2Model ----
(***************************************************************************)
(* Stance resolution of the virtual hexapod (src/hexapod/VirtualHexapod.js) *)
(* The constructor is followed step by step (pc), the consumed solvers are *)
(* nondeterministic, and cloneTrot / cloneShift act on resolved stances.   *)
(* Coordinates are exact integers; angles are counted in quarter turns, so *)
(* that every rotation matrix used here has integer entries.               *)
(***************************************************************************)
EXTENDS Integers, Sequences, FiniteSets, TLC

VARIABLES pc, flags, hexapod, flatHexagon, legsNoGravity, solved, aligned,
          simpleAngle, calls, nextId, clone, source, lastOp, nClones, rotOnly

vars == <<pc, flags, hexapod, flatHexagon, legsNoGravity, solved, aligned,
          simpleAngle, calls, nextId, clone, source, lastOp, nClones, rotOnly>>

\* ---------------------------------------------------------------- bounds
MaxClones == 2
MaxHeight == 2

\* ------------------------------------------------- vectors and matrices
Vec(x, y, z) == <<x, y, z>>

Dot(a, b) == a[1] * b[1] + a[2] * b[2] + a[3] * b[3]

\* Vector.newTrot / Vector.cloneTrot: the matrix applied to the point
Trot(m, p) == <<Dot(m[1], p), Dot(m[2], p), Dot(m[3], p)>>

\* Vector.cloneShift
Shift(p, tx, ty, tz) == <<p[1] + tx, p[2] + ty, p[3] + tz>>

\* Vector.cloneTrotShift: rotate first, then translate
TrotShift(m, p, tx, ty, tz) == Shift(Trot(m, p), tx, ty, tz)

\* mathjs identity(4): no rotation, no translation
Identity == <<Vec(1, 0, 0), Vec(0, 1, 0), Vec(0, 0, 1)>>

\* tRotZmatrix(angle), the angle in quarter turns
tRotZmatrix(angle) ==
    CASE angle % 4 = 0 -> Identity
      [] angle % 4 = 1 -> <<Vec(0, -1, 0), Vec(1, 0, 0), Vec(0, 0, 1)>>
      [] angle % 4 = 2 -> <<Vec(-1, 0, 0), Vec(0, -1, 0), Vec(0, 0, 1)>>
      [] angle % 4 = 3 -> <<Vec(0, 1, 0), Vec(-1, 0, 0), Vec(0, 0, 1)>>

\* the normals the Orientation Solver answers with in this model
NAxes == {Vec(0, 0, 1), Vec(1, 0, 0), Vec(0, -1, 0)}

\* matrixToAlignVectorAtoB(nAxis, worldZ): the rotation about nAxis x worldZ
\* that carries nAxis onto worldZ
matrixToAlignVectorAtoB(a) ==
    CASE a = Vec(0, 0, 1) -> Identity
      [] a = Vec(1, 0, 0) -> <<Vec(0, 0, -1), Vec(0, 1, 0), Vec(1, 0, 0)>>
      [] a = Vec(0, -1, 0) -> <<Vec(1, 0, 0), Vec(0, 0, 1), Vec(0, -1, 0)>>

WORLD_AXES == [xAxis |-> Vec(1, 0, 0), yAxis |-> Vec(0, 1, 0), zAxis |-> Vec(0, 0, 1)]

\* a field that was never assigned
UNSET == [id |-> 0]

NoSolution == [ok |-> FALSE]

\* no stance at all: nothing was constructed or cloned yet
NoStance == [body |-> UNSET]

\* ------------------------------------------------------ local axes
ComputeLocalAxesSkewed(transformMatrix, id) ==
    [id |-> id,
     xAxis |-> Trot(transformMatrix, WORLD_AXES.xAxis),
     yAxis |-> Trot(transformMatrix, WORLD_AXES.yAxis),
     zAxis |-> Trot(transformMatrix, WORLD_AXES.xAxis)]

computeLocalAxes(transformMatrix, id) ==
    [id |-> id,
     xAxis |-> Trot(transformMatrix, WORLD_AXES.xAxis),
     yAxis |-> Trot(transformMatrix, WORLD_AXES.yAxis),
     zAxis |-> Trot(transformMatrix, WORLD_AXES.zAxis)]

TransformLocalAxesShared(localAxes, twistMatrix, id) ==
    [id |-> localAxes.id,
     xAxis |-> Trot(twistMatrix, localAxes.xAxis),
     yAxis |-> Trot(twistMatrix, localAxes.yAxis),
     zAxis |-> Trot(twistMatrix, localAxes.zAxis)]

transformLocalAxes(localAxes, twistMatrix, id) ==
    [id |-> id,
     xAxis |-> Trot(twistMatrix, localAxes.xAxis),
     yAxis |-> Trot(twistMatrix, localAxes.yAxis),
     zAxis |-> Trot(twistMatrix, localAxes.zAxis)]

\* ------------------------------------------------------ body (Hexagon)
POSITION_NAMES_LIST ==
    <<"rightMiddle", "rightFront", "leftFront", "leftMiddle", "leftBack", "rightBack">>

\* new Hexagon(bodyDimensions): the flat body, every point at z = 0
Hexagon(bodyDimensions, id) ==
    LET f == bodyDimensions.front
        s == bodyDimensions.side
        m == bodyDimensions.middle
    IN [id |-> id,
        verticesList |-> <<Vec(m, 0, 0), Vec(f, s, 0), Vec(0 - f, s, 0),
                           Vec(0 - m, 0, 0), Vec(0 - f, 0 - s, 0), Vec(f, 0 - s, 0)>>,
        head |-> Vec(0, s, 0),
        cog |-> Vec(0, 0, 0)]

\* Hexagon.cloneTrotShift / cloneTrot / cloneShift: every stored point alike
BodyTrotShift(body, m, tx, ty, tz, id) ==
    [id |-> id,
     verticesList |-> [i \in 1..Len(body.verticesList) |->
                          TrotShift(m, body.verticesList[i], tx, ty, tz)],
     head |-> TrotShift(m, body.head, tx, ty, tz),
     cog |-> TrotShift(m, body.cog, tx, ty, tz)]

BodyTrot(body, m, id) == BodyTrotShift(body, m, 0, 0, 0, id)

BodyShift(body, tx, ty, tz, id) == BodyTrotShift(body, Identity, tx, ty, tz, id)

\* ------------------------------------------------------ legs (Linkage)
\* the direction a leg leaves the body in, before its alpha is applied
LegDirection(index) ==
    CASE index = 1 -> Vec(1, 0, 0)
      [] index = 2 -> Vec(1, 1, 0)
      [] index = 3 -> Vec(-1, 1, 0)
      [] index = 4 -> Vec(-1, 0, 0)
      [] index = 5 -> Vec(-1, -1, 0)
      [] index = 6 -> Vec(1, -1, 0)

Scale(k, v) == <<k * v[1], k * v[2], k * v[3]>>

Add(a, b) == <<a[1] + b[1], a[2] + b[2], a[3] + b[3]>>

\* the index of the lowest point of a leg, the later point winning a tie
LowestIndex(points) ==
    CHOOSE i \in 1..Len(points) :
        \A j \in 1..Len(points) :
            \/ points[i][3] < points[j][3]
            \/ points[i][3] = points[j][3] /\ j <= i

\* new Linkage(legDimensions, position, bodyContactPoint, pose): the four
\* points of the leg at zero gravity and its candidate ground contact
Linkage(legDimensions, position, index, bodyContactPoint, legPose) ==
    LET d == Trot(tRotZmatrix(legPose.alpha), LegDirection(index))
        coxiaPoint == Add(bodyContactPoint, Scale(legDimensions.coxia, d))
        femurPoint == Add(coxiaPoint,
                          Scale(legDimensions.femur,
                                IF legPose.beta = 0 THEN d ELSE Vec(0, 0, 1)))
        footTipPoint == Add(femurPoint,
                            Scale(legDimensions.tibia,
                                  IF legPose.gamma = 0 THEN Vec(0, 0, -1) ELSE d))
        points == <<bodyContactPoint, coxiaPoint, femurPoint, footTipPoint>>
    IN [position |-> position,
        pose |-> legPose,
        allPointsList |-> points,
        contact |-> LowestIndex(points)]

maybeGroundContactPoint(leg) == leg.allPointsList[leg.contact]

LegTrotShift(leg, m, tx, ty, tz) ==
    [leg EXCEPT !.allPointsList =
        [i \in 1..Len(leg.allPointsList) |->
            TrotShift(m, leg.allPointsList[i], tx, ty, tz)]]

BuildLegsListReversed(verticesList, pose, legDimensions, id) ==
    [id |-> id,
     items |-> [index \in 1..Len(POSITION_NAMES_LIST) |->
                  LET k == Len(POSITION_NAMES_LIST) + 1 - index
                  IN Linkage(legDimensions, POSITION_NAMES_LIST[k], k,
                             verticesList[k], pose[POSITION_NAMES_LIST[k]])]]

buildLegsList(verticesList, pose, legDimensions, id) ==
    [id |-> id,
     items |-> [index \in 1..Len(POSITION_NAMES_LIST) |->
                  Linkage(legDimensions, POSITION_NAMES_LIST[index], index,
                          verticesList[index], pose[POSITION_NAMES_LIST[index]])]]

\* legs.map(leg => leg.cloneTrotShift(...)): a new list of new legs
LegsTrotShift(legs, m, tx, ty, tz, id) ==
    [id |-> id,
     items |-> [i \in 1..Len(legs.items) |-> LegTrotShift(legs.items[i], m, tx, ty, tz)]]

\* points.map(point => point.cloneTrotShift(...))
PointsTrotShift(points, m, tx, ty, tz, id) ==
    [id |-> id,
     items |-> [i \in 1..Len(points.items) |-> TrotShift(m, points.items[i], tx, ty, tz)]]

\* ------------------------------------------------------ inputs
DimensionsSet ==
    {[front |-> 1, side |-> 1, middle |-> 2, coxia |-> 1, femur |-> 1, tibia |-> 1],
     [front |-> 1, side |-> 2, middle |-> 2, coxia |-> 1, femur |-> 1, tibia |-> 2]}

Angles(a, b, g) == [alpha |-> a, beta |-> b, gamma |-> g]

UniformPose(a, b, g) == [position \in {POSITION_NAMES_LIST[i] : i \in 1..6} |-> Angles(a, b, g)]

\* templates DEFAULT_POSE: every angle zero
DEFAULT_POSE == UniformPose(0, 0, 0)

PoseSet ==
    {DEFAULT_POSE,
     UniformPose(0, 1, 1),
     [UniformPose(0, 1, 0) EXCEPT !["leftBack"] = Angles(1, 0, 1)]}

FlagsSet == [noGravity : BOOLEAN, shiftedUp : BOOLEAN, hasNoPoints : BOOLEAN]

\* the sets of legs (by index in the canonical list) the solver may find on
\* the ground: three to six of them
GroundLegSets == {{2, 4, 6}, {1, 2, 4, 5}, {1, 2, 3, 4, 5}, 1..6}

Heights == 1..MaxHeight

TwistAngles == {0, 1}

ShiftSet == {Vec(0, 0, 0), Vec(1, -2, 1)}

Doubling == <<Vec(2, 0, 0), Vec(0, 2, 0), Vec(0, 0, 2)>>

TrotSet == {Identity, matrixToAlignVectorAtoB(Vec(1, 0, 0)), Doubling}

Cross(a, b) == <<a[2] * b[3] - a[3] * b[2], a[3] * b[1] - a[1] * b[3], a[1] * b[2] - a[2] * b[1]>>

\* rows of unit length, mutually orthogonal, right-handed
IsRotationOnly(m) ==
    /\ \A i \in 1..3 : Dot(m[i], m[i]) = 1
    /\ \A i \in 1..3 : \A j \in 1..3 : i # j => Dot(m[i], m[j]) = 0
    /\ Cross(m[1], m[2]) = m[3]

\* the elements of a set of leg indices, in ascending order
RECURSIVE SortedSeq(_)
SortedSeq(S) ==
    IF S = {} THEN <<>>
    ELSE LET lo == CHOOSE x \in S : \A y \in S : x <= y
         IN <<lo>> \o SortedSeq(S \ {lo})

\* ------------------------------------------------------ the stance
\* Object.assign(this, { dimensions, pose, twistAngle: 0 })
EmptyShell(dimensions, pose) ==
    [dimensions |-> dimensions, pose |-> pose, twistAngle |-> 0,
     legs |-> UNSET, body |-> UNSET, localAxes |-> UNSET,
     groundContactPoints |-> UNSET]

bodyDimensions(h) ==
    [front |-> h.dimensions.front, middle |-> h.dimensions.middle, side |-> h.dimensions.side]

legDimensions(h) ==
    [coxia |-> h.dimensions.coxia, femur |-> h.dimensions.femur, tibia |-> h.dimensions.tibia]

distanceFromGround(h) == h.body.cog[3]

hasTwisted(h) == h.twistAngle # 0

DanglingHeightShort(h) == legDimensions(h).coxia + legDimensions(h).femur

\* Object.values(this.legDimensions).reduce((height, dim) => height + dim, 0)
DanglingHeight(h) ==
    legDimensions(h).coxia + legDimensions(h).femur + legDimensions(h).tibia

DanglingHexapodAlwaysShifted(h, body, legs, shiftedUp, id) ==
    [h EXCEPT !.localAxes = computeLocalAxes(Identity, id),
              !.groundContactPoints = [id |-> id + 1, items |-> <<>>],
              !.body = BodyTrotShift(body, Identity, 0, 0, DanglingHeight(h), id + 2),
              !.legs = LegsTrotShift(legs, Identity, 0, 0, DanglingHeight(h), id + 3)]

\* _danglingHexapod(body, legs, shiftedUp)
danglingHexapod(h, body, legs, shiftedUp, id) ==
    LET base == [h EXCEPT !.localAxes = computeLocalAxes(Identity, id),
                          !.groundContactPoints = [id |-> id + 1, items |-> <<>>]]
    IN IF ~shiftedUp
       THEN [base EXCEPT !.body = body, !.legs = legs]
       ELSE [base EXCEPT
                !.body = BodyTrotShift(body, Identity, 0, 0, DanglingHeight(h), id + 2),
                !.legs = LegsTrotShift(legs, Identity, 0, 0, DanglingHeight(h), id + 3)]

TwistLeavesContactPoints(h, id) ==
    LET twistMatrix == tRotZmatrix(h.twistAngle)
    IN [h EXCEPT !.legs = LegsTrotShift(h.legs, twistMatrix, 0, 0, 0, id),
                 !.body = BodyTrot(h.body, twistMatrix, id + 1),
                 !.localAxes = transformLocalAxes(h.localAxes, twistMatrix, id + 3)]

\* _twist(): everything rotated about the world z axis by this.twistAngle
twist(h, id) ==
    LET twistMatrix == tRotZmatrix(h.twistAngle)
    IN [h EXCEPT !.legs = LegsTrotShift(h.legs, twistMatrix, 0, 0, 0, id),
                 !.body = BodyTrot(h.body, twistMatrix, id + 1),
                 !.groundContactPoints =
                     PointsTrotShift(h.groundContactPoints, twistMatrix, 0, 0, 0, id + 2),
                 !.localAxes = transformLocalAxes(h.localAxes, twistMatrix, id + 3)]

GroundContactPointsDropLast(legs, groundLegs) ==
    [i \in 1..(Len(groundLegs) - 1) |-> maybeGroundContactPoint(legs.items[groundLegs[i]])]

\* solved.groundLegsNoGravity.map(leg => leg.maybeGroundContactPoint)
GroundContactPointsOf(legs, groundLegs) ==
    [i \in 1..Len(groundLegs) |-> maybeGroundContactPoint(legs.items[groundLegs[i]])]

\* STEP 2 of the constructor: rotate and shift legs and body
alignAndShift(h, body, legs, s, id) ==
    LET transformMatrix == matrixToAlignVectorAtoB(s.nAxis)
    IN [h EXCEPT
          !.legs = LegsTrotShift(legs, transformMatrix, 0, 0, s.height, id),
          !.body = BodyTrotShift(body, transformMatrix, 0, 0, s.height, id + 1),
          !.localAxes = computeLocalAxes(transformMatrix, id + 2),
          !.groundContactPoints =
              PointsTrotShift([id |-> 0,
                               items |-> GroundContactPointsOf(legs, s.groundLegsNoGravity)],
                              transformMatrix, 0, 0, s.height, id + 3)]

EveryBetaZero(legs) == \A i \in 1..Len(legs.items) : legs.items[i].pose.beta = 0

\* this.legs.every(leg => leg.pose.alpha === 0)
EveryAlphaZero(legs) == \A i \in 1..Len(legs.items) : legs.items[i].pose.alpha = 0

CloneTrotOfShared(h, m, id) ==
    [EmptyShell(h.dimensions, h.pose) EXCEPT
        !.body = BodyTrot(h.body, m, id),
        !.legs = LegsTrotShift(h.legs, m, 0, 0, 0, id + 1),
        !.groundContactPoints = PointsTrotShift(h.groundContactPoints, m, 0, 0, 0, id + 2),
        !.localAxes = TransformLocalAxesShared(h.localAxes, m, id + 3)]

\* cloneTrot(transformMatrix)
cloneTrot(h, m, id) ==
    [EmptyShell(h.dimensions, h.pose) EXCEPT
        !.body = BodyTrot(h.body, m, id),
        !.legs = LegsTrotShift(h.legs, m, 0, 0, 0, id + 1),
        !.groundContactPoints = PointsTrotShift(h.groundContactPoints, m, 0, 0, 0, id + 2),
        !.localAxes = transformLocalAxes(h.localAxes, m, id + 3)]

CloneShiftDrift(h, tx, ty, tz, id) ==
    [EmptyShell(h.dimensions, h.pose) EXCEPT
        !.body = BodyShift(h.body, tx, ty, tz + 1, id),
        !.legs = LegsTrotShift(h.legs, Identity, tx, ty, tz, id + 1),
        !.groundContactPoints =
            PointsTrotShift(h.groundContactPoints, Identity, tx, ty, tz, id + 2),
        !.localAxes = h.localAxes]

\* cloneShift(tx, ty, tz)
cloneShift(h, tx, ty, tz, id) ==
    [EmptyShell(h.dimensions, h.pose) EXCEPT
        !.body = BodyShift(h.body, tx, ty, tz, id),
        !.legs = LegsTrotShift(h.legs, Identity, tx, ty, tz, id + 1),
        !.groundContactPoints =
            PointsTrotShift(h.groundContactPoints, Identity, tx, ty, tz, id + 2),
        !.localAxes = h.localAxes]

\* ------------------------------------------------------ the constructor
Init ==
    /\ pc = "idle"
    /\ flags = [noGravity |-> FALSE, shiftedUp |-> FALSE, hasNoPoints |-> FALSE]
    /\ hexapod = NoStance
    /\ flatHexagon = UNSET
    /\ legsNoGravity = UNSET
    /\ solved = NoSolution
    /\ aligned = NoStance
    /\ simpleAngle = 0
    /\ calls = <<>>
    /\ nextId = 1
    /\ clone = NoStance
    /\ source = NoStance
    /\ lastOp = [op |-> "none"]
    /\ nClones = 0
    /\ rotOnly = TRUE

cloneVars == <<clone, source, lastOp, nClones, rotOnly>>

\* new VirtualHexapod(dimensions, pose, flags), line 115
Construct ==
    /\ pc = "idle"
    /\ \E d \in DimensionsSet, p \in PoseSet, f \in FlagsSet :
          /\ hexapod' = EmptyShell(d, p)
          /\ flags' = f
    /\ pc' = "Init"
    /\ UNCHANGED <<flatHexagon, legsNoGravity, solved, aligned, simpleAngle, calls,
                   nextId, cloneVars>>

EmptyShellUnlessNoGravity(f) == f.hasNoPoints /\ ~f.noGravity

\* if (flags.hasNoPoints)
ReturnsEmptyShell(f) == f.hasNoPoints

\* if (flags.hasNoPoints) return
HasNoPointsReturn ==
    /\ pc = "Init"
    /\ ReturnsEmptyShell(flags)
    /\ pc' = "Done"
    /\ UNCHANGED <<flags, hexapod, flatHexagon, legsNoGravity, solved, aligned,
                   simpleAngle, calls, nextId, cloneVars>>

\* the flat hexagon and the six legs at zero gravity
FlatBuild ==
    /\ pc = "Init"
    /\ ~ReturnsEmptyShell(flags)
    /\ flatHexagon' = Hexagon(bodyDimensions(hexapod), nextId)
    /\ legsNoGravity' = buildLegsList(flatHexagon'.verticesList, hexapod.pose,
                                      legDimensions(hexapod), nextId + 1)
    /\ nextId' = nextId + 2
    /\ calls' = calls \o <<"Hexagon", "buildLegsList">>
    /\ pc' = "FlatBuild"
    /\ UNCHANGED <<flags, hexapod, solved, aligned, simpleAngle, cloneVars>>

SkipsSolverWhenShifted(f) == f.noGravity /\ f.shiftedUp

SkipsSolverOrShifted(f) == f.noGravity \/ f.shiftedUp

\* if (flags.noGravity)
SkipsSolver(f) == f.noGravity

NoGravityDangling ==
    /\ pc = "FlatBuild"
    /\ SkipsSolver(flags)
    /\ hexapod' = danglingHexapod(hexapod, flatHexagon, legsNoGravity, flags.shiftedUp, nextId)
    /\ nextId' = nextId + 4
    /\ pc' = "Dangling"
    /\ UNCHANGED <<flags, flatHexagon, legsNoGravity, solved, aligned, simpleAngle,
                   calls, cloneVars>>

\* what oSolver1.computeOrientationProperties may answer
SolverResults ==
    {NoSolution} \cup
    {[ok |-> TRUE, nAxis |-> n, height |-> ht, groundLegsNoGravity |-> SortedSeq(g)] :
        n \in NAxes, ht \in Heights, g \in GroundLegSets}

OrientationSolve ==
    /\ pc = "FlatBuild"
    /\ ~SkipsSolver(flags)
    /\ \E s \in SolverResults : solved' = s
    /\ calls' = Append(calls, "computeOrientationProperties")
    /\ pc' = "OrientationSolve"
    /\ UNCHANGED <<flags, hexapod, flatHexagon, legsNoGravity, aligned, simpleAngle,
                   nextId, cloneVars>>

\* if (solved === null): unstable pose
UnstableDangling ==
    /\ pc = "OrientationSolve"
    /\ solved = NoSolution
    /\ hexapod' = danglingHexapod(hexapod, flatHexagon, legsNoGravity, flags.shiftedUp, nextId)
    /\ nextId' = nextId + 4
    /\ pc' = "Dangling"
    /\ UNCHANGED <<flags, flatHexagon, legsNoGravity, solved, aligned, simpleAngle,
                   calls, cloneVars>>

AlignAndShift ==
    /\ pc = "OrientationSolve"
    /\ solved # NoSolution
    /\ hexapod' = alignAndShift(hexapod, flatHexagon, legsNoGravity, solved, nextId)
    /\ aligned' = hexapod'
    /\ nextId' = nextId + 4
    /\ calls' = Append(calls, "matrixToAlignVectorAtoB")
    /\ pc' = "AlignAndShift"
    /\ UNCHANGED <<flags, flatHexagon, legsNoGravity, solved, simpleAngle, cloneVars>>

\* every alpha is zero: the hexapod will not twist about the z axis
TwistCheck ==
    /\ pc = "AlignAndShift"
    /\ EveryAlphaZero(hexapod.legs)
    /\ pc' = "Done"
    /\ UNCHANGED <<flags, hexapod, flatHexagon, legsNoGravity, solved, aligned,
                   simpleAngle, calls, nextId, cloneVars>>

\* STEP 3, lines 168-171
SimpleTwistApply ==
    /\ pc = "AlignAndShift"
    /\ ~EveryAlphaZero(hexapod.legs)
    /\ \E angle \in TwistAngles :
          LET h == [hexapod EXCEPT !.twistAngle = angle]
          IN /\ simpleAngle' = angle
             /\ IF angle # 0
                THEN hexapod' = twist(h, nextId) /\ nextId' = nextId + 4
                ELSE hexapod' = h /\ nextId' = nextId
    /\ calls' = Append(calls, "simpleTwist")
    /\ pc' = "SimpleTwistApply"
    /\ UNCHANGED <<flags, flatHexagon, legsNoGravity, solved, aligned, cloneVars>>

\* lines 173-186
ComplexTwistCheck ==
    /\ pc = "SimpleTwistApply"
    /\ \E might \in BOOLEAN :
          IF might
          THEN \E angle \in TwistAngles :
                  /\ hexapod' = twist([hexapod EXCEPT !.twistAngle = angle], nextId + 1)
                  /\ nextId' = nextId + 5
                  /\ calls' = calls \o <<"mightTwist", "buildLegsList", "complexTwist">>
          ELSE /\ calls' = Append(calls, "mightTwist")
               /\ UNCHANGED <<hexapod, nextId>>
    /\ pc' = "Done"
    /\ UNCHANGED <<flags, flatHexagon, legsNoGravity, solved, aligned, simpleAngle,
                   cloneVars>>

\* ------------------------------------------------------ the clones
Returned == pc \in {"Done", "Dangling"}

\* the stances a clone operation can be called on: the constructed one and
\* the latest clone; one without a body makes the call throw
Receivers == {h \in {hexapod, clone} : h.body # UNSET}

CloneTrot ==
    /\ Returned
    /\ nClones < MaxClones
    /\ \E h \in Receivers, m \in TrotSet :
          /\ clone' = cloneTrot(h, m, nextId)
          /\ source' = h
          /\ lastOp' = [op |-> "cloneTrot", m |-> m]
          /\ rotOnly' = (IsRotationOnly(m) /\ (h = clone => rotOnly))
    /\ nextId' = nextId + 4
    /\ nClones' = nClones + 1
    /\ UNCHANGED <<pc, flags, hexapod, flatHexagon, legsNoGravity, solved, aligned,
                   simpleAngle, calls>>

CloneShift ==
    /\ Returned
    /\ nClones < MaxClones
    /\ \E h \in Receivers, t \in ShiftSet :
          /\ clone' = cloneShift(h, t[1], t[2], t[3], nextId)
          /\ source' = h
          /\ lastOp' = [op |-> "cloneShift", t |-> t]
          /\ rotOnly' = (h = clone => rotOnly)
    /\ nextId' = nextId + 3
    /\ nClones' = nClones + 1
    /\ UNCHANGED <<pc, flags, hexapod, flatHexagon, legsNoGravity, solved, aligned,
                   simpleAngle, calls>>

Next ==
    \/ Construct
    \/ HasNoPointsReturn
    \/ FlatBuild
    \/ NoGravityDangling
    \/ OrientationSolve
    \/ UnstableDangling
    \/ AlignAndShift
    \/ TwistCheck
    \/ SimpleTwistApply
    \/ ComplexTwistCheck
    \/ CloneTrot
    \/ CloneShift

Spec == Init /\ [][Next]_vars

\* ------------------------------------------------------ what is observed
TwistSolvers == {"simpleTwist", "mightTwist", "complexTwist"}

Called == {calls[i] : i \in 1..Len(calls)}

IsStance(h) == h # NoStance

\* the coordinates of a stance, without the identities of its objects
BodyCoords(body) == <<body.verticesList, body.head, body.cog>>

AxesCoords(axes) == <<axes.xAxis, axes.yAxis, axes.zAxis>>

Coords(h) ==
    <<BodyCoords(h.body), h.legs.items, h.groundContactPoints.items, AxesCoords(h.localAxes)>>

LegsCanonical(h) ==
    /\ h.legs # UNSET
    /\ Len(h.legs.items) = 6
    /\ \A i \in 1..6 : h.legs.items[i].position = POSITION_NAMES_LIST[i]

Orthonormal(axes) ==
    /\ Dot(axes.xAxis, axes.xAxis) = 1
    /\ Dot(axes.yAxis, axes.yAxis) = 1
    /\ Dot(axes.zAxis, axes.zAxis) = 1
    /\ Dot(axes.xAxis, axes.yAxis) = 0
    /\ Dot(axes.yAxis, axes.zAxis) = 0
    /\ Dot(axes.zAxis, axes.xAxis) = 0

PoseAlphaZero(pose) == \A position \in DOMAIN pose : pose[position].alpha = 0

\* ------------------------------------------------------ C1
GroundCountOk(h) ==
    /\ h.groundContactPoints # UNSET
    /\ Len(h.groundContactPoints.items) \in {0, 3, 4, 5, 6}
    /\ (Len(h.groundContactPoints.items) = 0 => pc = "Dangling")
    /\ (pc = "Done" => Len(h.groundContactPoints.items) \in 3..6)

\* C1 as stated: every stance the constructor returns, whatever the flags,
\* has 0, 3, 4, 5 or 6 ground contact points, 0 only in the dangling fallback
C1_AnyFlags == Returned => GroundCountOk(hexapod)

\* C1 amended: every stance the constructor returns with hasNoPoints not set
\* has 0, 3, 4, 5 or 6 ground contact points, 0 only in the dangling fallback,
\* and 3 to 6 whenever the solver returned a stable result
C1_GroundCount == (Returned /\ ~flags.hasNoPoints) => GroundCountOk(hexapod)

C1_Witness ==
    /\ pc = "Done"
    /\ ~flags.hasNoPoints
    /\ solved # NoSolution
    /\ Len(hexapod.groundContactPoints.items) = 3

\* ------------------------------------------------------ C2
\* C2: with every alpha zero the twist angle is 0, no twist solver is called
\* and the stance stays the one AlignAndShift produced
C2_NoTwistWhenAlphaZero ==
    (IsStance(hexapod) /\ PoseAlphaZero(hexapod.pose)) =>
        /\ hexapod.twistAngle = 0
        /\ Called \cap TwistSolvers = {}
        /\ (IsStance(aligned) => hexapod = aligned)

C2_Witness ==
    /\ pc = "Done"
    /\ ~flags.hasNoPoints
    /\ solved # NoSolution
    /\ PoseAlphaZero(hexapod.pose)
    /\ hexapod.pose["leftBack"].beta # 0

\* ------------------------------------------------------ C3
\* C3: an unstable pose without shiftedUp yields the dangling stance: no
\* ground contact points, twist angle 0, world axes, the flat body and the
\* zero-gravity legs themselves, and no twist solver called
C3_UnstableIsFlat ==
    (pc = "Dangling" /\ "computeOrientationProperties" \in Called /\ ~flags.shiftedUp) =>
        /\ solved = NoSolution
        /\ hexapod.groundContactPoints.items = <<>>
        /\ hexapod.twistAngle = 0
        /\ AxesCoords(hexapod.localAxes) = AxesCoords(WORLD_AXES)
        /\ hexapod.body = flatHexagon
        /\ hexapod.legs = legsNoGravity
        /\ Called \cap TwistSolvers = {}

C3_Witness ==
    /\ pc = "Dangling"
    /\ "computeOrientationProperties" \in Called
    /\ ~flags.shiftedUp
    /\ ~PoseAlphaZero(hexapod.pose)

\* ------------------------------------------------------ C4
\* the AlignAndShift result turned about the world z axis by a given angle
AlignedTurnedBy(angle) ==
    <<BodyCoords(BodyTrot(aligned.body, tRotZmatrix(angle), 0)),
      LegsTrotShift(aligned.legs, tRotZmatrix(angle), 0, 0, 0, 0).items,
      PointsTrotShift(aligned.groundContactPoints, tRotZmatrix(angle), 0, 0, 0, 0).items,
      AxesCoords(transformLocalAxes(aligned.localAxes, tRotZmatrix(angle), 0))>>

\* C4 as stated: after complexTwist the stance is the AlignAndShift result
\* turned about the world vertical axis by exactly the final twistAngle
C4_FinalTwistOnly ==
    (pc = "Done" /\ "complexTwist" \in Called) =>
        Coords(hexapod) = AlignedTurnedBy(hexapod.twistAngle)

\* ------------------------------------------------------ C5
Cloned == lastOp.op # "none"

SharesOnlyValues(src, cl) ==
    /\ cl.dimensions = src.dimensions
    /\ cl.pose = src.pose
    /\ cl.legs.id # src.legs.id
    /\ cl.body.id # src.body.id
    /\ cl.groundContactPoints.id # src.groundContactPoints.id

IdentityClone ==
    \/ lastOp.op = "cloneShift" /\ lastOp.t = Vec(0, 0, 0)
    \/ lastOp.op = "cloneTrot" /\ lastOp.m = Identity

\* C6: cloneShift(0, 0, 0) and cloneTrot(identity) return the coordinates of
\* the source, point for point
C6_IdentityClone == IdentityClone => Coords(clone) = Coords(source)

C6_Witness ==
    /\ lastOp.op = "cloneShift"
    /\ lastOp.t = Vec(0, 0, 0)
    /\ Len(source.groundContactPoints.items) >= 3
    /\ source.twistAngle # 0

\* ------------------------------------------------------ C7
\* C7 as stated: every stance from the constructor, whatever the flags, and
\* every clone has six legs in the canonical position order
C7_AnyFlags ==
    /\ Returned => LegsCanonical(hexapod)
    /\ IsStance(clone) => LegsCanonical(clone)

\* C7 amended: every stance from the constructor with hasNoPoints not set,
\* and every clone of such a stance, has six legs in the canonical order
C7_SixLegs ==
    /\ (Returned /\ ~flags.hasNoPoints) => LegsCanonical(hexapod)
    /\ IsStance(clone) => LegsCanonical(clone)

C7_Witness ==
    /\ nClones = MaxClones
    /\ source # hexapod
    /\ lastOp.op = "cloneTrot"
    /\ LegsCanonical(clone)

\* ------------------------------------------------------ C8
\* C8: the local axes of a resolved stance, and of every clone made of it by
\* shifts and rotation-only matrices, are three orthogonal unit vectors
C8_Orthonormal ==
    /\ (IsStance(hexapod) /\ hexapod.localAxes # UNSET) => Orthonormal(hexapod.localAxes)
    /\ (IsStance(clone) /\ rotOnly) => Orthonormal(clone.localAxes)

C8_Witness ==
    /\ lastOp.op = "cloneTrot"
    /\ lastOp.m # Identity
    /\ rotOnly
    /\ source # hexapod
    /\ hexapod.twistAngle # 0
    /\ AxesCoords(clone.localAxes) # AxesCoords(WORLD_AXES)

\* ------------------------------------------------------ C9
Lifted(p, h) == <<p[1], p[2], p[3] + h.dimensions.coxia + h.dimensions.femur + h.dimensions.tibia>>

\* C9: the dangling stance with shiftedUp is the flat body and legs moved up
\* by coxia + femur + tibia, unrotated; no ground contact points, twist 0,
\* world axes
C9_ShiftedUp ==
    (pc = "Dangling" /\ flags.shiftedUp) =>
        /\ hexapod.body.verticesList =
              [i \in 1..6 |-> Lifted(flatHexagon.verticesList[i], hexapod)]
        /\ hexapod.body.head = Lifted(flatHexagon.head, hexapod)
        /\ hexapod.body.cog = Lifted(flatHexagon.cog, hexapod)
        /\ Len(hexapod.legs.items) = 6
        /\ \A i \in 1..6 :
              hexapod.legs.items[i].allPointsList =
                 [k \in 1..Len(legsNoGravity.items[i].allPointsList) |->
                     Lifted(legsNoGravity.items[i].allPointsList[k], hexapod)]
        /\ distanceFromGround(hexapod) =
              flatHexagon.cog[3] + hexapod.dimensions.coxia + hexapod.dimensions.femur
                 + hexapod.dimensions.tibia
        /\ hexapod.groundContactPoints.items = <<>>
        /\ hexapod.twistAngle = 0
        /\ AxesCoords(hexapod.localAxes) = AxesCoords(WORLD_AXES)

C9_Witness ==
    /\ pc = "Dangling"
    /\ flags.shiftedUp
    /\ ~flags.noGravity
    /\ distanceFromGround(hexapod) = 4

\* ------------------------------------------------------ C10
\* C10: with noGravity set and hasNoPoints not, no solver is ever called, the
\* flat body and legs are built first, and the result is the dangling stance
C10_NoGravity ==
    (flags.noGravity /\ ~flags.hasNoPoints) =>
        /\ Called \subseteq {"Hexagon", "buildLegsList"}
        /\ pc # "Done"
        /\ pc = "Dangling" =>
              /\ calls = <<"Hexagon", "buildLegsList">>
              /\ hexapod.groundContactPoints.items = <<>>
              /\ hexapod.twistAngle = 0
              /\ BodyCoords(hexapod.body) =
                    BodyCoords(BodyShift(flatHexagon, 0, 0,
                                         IF flags.shiftedUp THEN DanglingHeight(hexapod) ELSE 0,
                                         0))

C10_Witness ==
    /\ pc = "Dangling"
    /\ flags.noGravity
    /\ ~flags.hasNoPoints
    /\ ~PoseAlphaZero(hexapod.pose)

\* ------------------------------------------------------ C11
\* C11: with hasNoPoints set the constructor stops at once, whatever the
\* other flags: nothing is built, nothing is called, legs, body, localAxes
\* and groundContactPoints stay unset; only dimensions, pose and
\* twistAngle = 0 are stored
C11_EmptyShell ==
    (flags.hasNoPoints /\ IsStance(hexapod)) =>
        /\ pc \in {"Init", "Done"}
        /\ calls = <<>>
        /\ flatHexagon = UNSET
        /\ legsNoGravity = UNSET
        /\ hexapod.legs = UNSET
        /\ hexapod.body = UNSET
        /\ hexapod.localAxes = UNSET
        /\ hexapod.groundContactPoints = UNSET
        /\ hexapod.twistAngle = 0
        /\ hexapod.dimensions \in DimensionsSet
        /\ hexapod.pose \in PoseSet
        /\ clone = NoStance

C11_Witness ==
    /\ pc = "Done"
    /\ flags.hasNoPoints
    /\ flags.noGravity
    /\ flags.shiftedUp
    /\ ~PoseAlphaZero(hexapod.pose)

\* ------------------------------------------------------ C12
\* the ground contact points of a stance are the contact points of its
\* ground legs, in the solver's order
ContactPointsFollowLegs(h) ==
    /\ Len(h.groundContactPoints.items) = Len(solved.groundLegsNoGravity)
    /\ \A i \in 1..Len(solved.groundLegsNoGravity) :
          h.groundContactPoints.items[i] =
             maybeGroundContactPoint(h.legs.items[solved.groundLegsNoGravity[i]])

\* C12: from AlignAndShift on, through the twists and every clone, the i-th
\* ground contact point is the contact point of the i-th ground leg and
\* their number does not change; a dangling stance and its clones have none
C12_ContactPointsFollowLegs ==
    /\ pc \in {"AlignAndShift", "SimpleTwistApply", "Done"} /\ ~flags.hasNoPoints =>
          /\ ContactPointsFollowLegs(hexapod)
          /\ IsStance(clone) => ContactPointsFollowLegs(clone)
    /\ pc = "Dangling" =>
          /\ hexapod.groundContactPoints.items = <<>>
          /\ IsStance(clone) => clone.groundContactPoints.items = <<>>

C12_Witness ==
    /\ pc = "Done"
    /\ "complexTwist" \in Called
    /\ simpleAngle # 0
    /\ nClones = MaxClones
    /\ source # hexapod
    /\ lastOp.op = "cloneTrot"
    /\ lastOp.m \notin {Identity, Doubling}
    /\ Len(clone.groundContactPoints.items) = 4

\* ------------------------------------------------------ C13
\* C13 as stated: a clone has the twist angle, and so the hasTwisted value,
\* of the stance it was cloned from
C13_TwistKept ==
    Cloned => (clone.twistAngle = source.twistAngle /\ hasTwisted(clone) = hasTwisted(source))

\* ------------------------------------------------------ C14
\* the constructor as a function of its arguments and of the answers of the
\* solvers it consumes
Constructed(d, p, f, s, simple, might, complex) ==
    LET shell == EmptyShell(d, p)
        flat == Hexagon(bodyDimensions(shell), 0)
        legs == buildLegsList(flat.verticesList, p, legDimensions(shell), 0)
        upright == alignAndShift(shell, flat, legs, s, 0)
        once == IF simple # 0
                THEN twist([upright EXCEPT !.twistAngle = simple], 0)
                ELSE [upright EXCEPT !.twistAngle = simple]
    IN IF ReturnsEmptyShell(f) THEN shell
       ELSE IF SkipsSolver(f) \/ s = NoSolution
            THEN danglingHexapod(shell, flat, legs, f.shiftedUp, 0)
       ELSE IF EveryAlphaZero(upright.legs) THEN upright
       ELSE IF might THEN twist([once EXCEPT !.twistAngle = complex], 0)
       ELSE once

\* the stance the same arguments and the same solver answers give when
\* shiftedUp is the other way round
OtherShiftedUp ==
    Constructed(hexapod.dimensions, hexapod.pose,
                [flags EXCEPT !.shiftedUp = ~flags.shiftedUp],
                solved, simpleAngle, "complexTwist" \in Called, hexapod.twistAngle)

\* C14: with a stable solver result and noGravity not set, the stance built
\* with shiftedUp is the stance built without it, and the body is raised by
\* the solver's height only (stated of the stance as the constructor returns
\* it, before any clone is made of it: clones leave it unchanged)
C14_ShiftedUpIgnored ==
    (pc = "Done" /\ ~flags.hasNoPoints /\ nClones = 0) =>
        /\ solved # NoSolution
        /\ ~flags.noGravity
        /\ Coords(OtherShiftedUp) = Coords(hexapod)
        /\ OtherShiftedUp.twistAngle = hexapod.twistAngle
        /\ distanceFromGround(hexapod) = flatHexagon.cog[3] + solved.height

C14_Witness ==
    /\ pc = "Done"
    /\ ~flags.hasNoPoints
    /\ flags.shiftedUp
    /\ hexapod.twistAngle # 0
    /\ solved.nAxis # Vec(0, 0, 1)
====
